---- MODULE Spec2Model ----
(***************************************************************************)
(* The duplicate-detection, quality-selection and naming pipeline of the   *)
(* image organizer (deduplicator.py, selector.py, organizer.py, namer.py,  *)
(* cli.py).  Strings are sequences of one-character strings, so that       *)
(* lower-casing, suffix stripping, pattern matching, sanitizing and the    *)
(* formatting of names are computed character by character.  A Python dict *)
(* is a sequence of [key, val] entries in insertion order.  A PhotoMetadata*)
(* object is a record; every photo of a batch lies in a directory of its   *)
(* own, so two objects of one batch never have the same file_path and      *)
(* equality of records is identity of objects.                             *)
(***************************************************************************)
EXTENDS Integers, Sequences, FiniteSets, TLC

VARIABLES
    pc,                         \* position of the run
    photos,                     \* cli.py: the list of analyzed PhotoMetadata
    skip_filename_similarity,   \* cli.py: the flag handed to detect_duplicates
    duplicate_groups,           \* detect_duplicates' result (dict id -> list)
    photos_to_keep,             \* select_unique_photos: set to keep
    photos_to_exclude,          \* select_unique_photos: set to exclude
    group,                      \* select_best_photo: its argument
    best,                       \* select_best_photo: its outcome
    organized,                  \* organize_by_date's result (photo -> date path)
    remaining,                  \* generate_names: the items not yet iterated
    named_photos,               \* generate_names: dict photo -> final path
    used_names,                 \* generate_names: the set of used path strings
    metadata,                   \* the photo being named
    base_path,                  \* ensure_unique_filename: the desired path
    counter,                    \* ensure_unique_filename: the suffix counter
    locals,                     \* ensure_unique_filename: stem, extension, parent
                                \* and timestamp_stem
    final_path,                 \* ensure_unique_filename: the path returned
    run,                        \* which run of the program this is
    first_named,                \* the mapping the first run produced
    fn_arg,                     \* the argument of a call of a string function
    fn_ret,                     \* what that call returned
    bases                       \* is_similar_filename: base1 and base2

dedupVars == <<photos, skip_filename_similarity, duplicate_groups,
               photos_to_keep, photos_to_exclude, group, best>>

nameVars == <<organized, remaining, named_photos, used_names, metadata,
              base_path, counter, locals, final_path, run, first_named>>

fnVars == <<fn_arg, fn_ret, bases>>

vars == <<pc, dedupVars, nameVars, fnVars>>

-----------------------------------------------------------------------------
(* Values of Python *)

\* None, comparable with every string (no string holds this element)
None == <<"None">>

\* the outcome of a call that raises ValueError
ValueError == [raised |-> "ValueError", value |-> None]

Returned(v) == [raised |-> "no", value |-> v]

\* a datetime is <<year, month, day, hour, minute, second, microsecond>>
\* datetime.fromtimestamp(mtime), for an mtime within the first day
FromTimestamp(mtime) ==
    <<1970, 1, 1, mtime \div 3600, (mtime \div 60) % 60, mtime % 60, 0>>

\* no call has been made yet
NotCalled == [raised |-> "not called", value |-> None]

-----------------------------------------------------------------------------
(* Strings *)

UpperAlpha == <<"A","B","C","D","E","F","G","H","I","J","K","L","M",
                "N","O","P","Q","R","S","T","U","V","W","X","Y","Z">>

LowerAlpha == <<"a","b","c","d","e","f","g","h","i","j","k","l","m",
                "n","o","p","q","r","s","t","u","v","w","x","y","z">>

DigitChars == <<"0","1","2","3","4","5","6","7","8","9">>

IsDigit(c) == \E i \in 1..Len(DigitChars) : DigitChars[i] = c

\* str.lower() on one character
LowerChar(c) ==
    IF \E i \in 1..Len(UpperAlpha) : UpperAlpha[i] = c
    THEN LowerAlpha[CHOOSE i \in 1..Len(UpperAlpha) : UpperAlpha[i] = c]
    ELSE c

\* str.lower()
Lower(s) == [i \in 1..Len(s) |-> LowerChar(s[i])]

\* s[:n]
Take(s, n) == SubSeq(s, 1, IF n < Len(s) THEN n ELSE Len(s))

\* s[n:]
Drop(s, n) == SubSeq(s, n + 1, Len(s))

\* s.startswith(p)
StartsWith(s, p) == Len(p) <= Len(s) /\ SubSeq(s, 1, Len(p)) = p

\* s.endswith(p)
EndsWith(s, p) ==
    Len(p) <= Len(s) /\ SubSeq(s, Len(s) - Len(p) + 1, Len(s)) = p

\* sub in s
Contains(s, sub) ==
    \E i \in 0..(Len(s) - Len(sub)) : SubSeq(s, i + 1, i + Len(sub)) = sub

\* the decimal digits of n >= 0
RECURSIVE DigitsOf(_)
DigitsOf(n) ==
    IF n < 10 THEN <<DigitChars[n + 1]>>
    ELSE DigitsOf(n \div 10) \o <<DigitChars[(n % 10) + 1]>>

\* f"{n:0{w}d}": at least w digits, zero padded
ZeroPad(n, w) ==
    LET d == DigitsOf(n)
    IN  [i \in 1..(IF Len(d) < w THEN w - Len(d) ELSE 0) |-> "0"] \o d

\* the elements of a set of integers in increasing order
RECURSIVE Ascending(_)
Ascending(S) ==
    IF S = {} THEN <<>>
    ELSE LET m == CHOOSE x \in S : \A y \in S : x <= y
         IN  <<m>> \o Ascending(S \ {m})

\* the set of the elements of a sequence
Range(s) == {s[i] : i \in DOMAIN s}

-----------------------------------------------------------------------------
(* dict *)

DictHas(d, k) == \E i \in DOMAIN d : d[i].key = k

DictGet(d, k) == d[CHOOSE i \in DOMAIN d : d[i].key = k].val

\* d[k] = v
DictPut(d, k, v) ==
    IF DictHas(d, k)
    THEN [i \in DOMAIN d |-> IF d[i].key = k THEN [key |-> k, val |-> v] ELSE d[i]]
    ELSE Append(d, [key |-> k, val |-> v])

\* d[k].append(x) on a defaultdict(list)
DictAppend(d, k, x) ==
    IF DictHas(d, k) THEN DictPut(d, k, Append(DictGet(d, k), x))
    ELSE Append(d, [key |-> k, val |-> <<x>>])

\* d.values()
DictValues(d) == [i \in DOMAIN d |-> d[i].val]

-----------------------------------------------------------------------------
(* pathlib *)

\* the index of the last "." of a name, 0 if there is none (1-based)
LastDot(name) ==
    IF \E i \in DOMAIN name : name[i] = "."
    THEN CHOOSE i \in DOMAIN name :
            name[i] = "." /\ \A j \in (i + 1)..Len(name) : name[j] # "."
    ELSE 0

\* PurePath.suffix: from the last dot, unless that dot is first or last
PathSuffix(name) ==
    LET i == LastDot(name)
    IN  IF 1 < i /\ i < Len(name) THEN SubSeq(name, i, Len(name)) ELSE <<>>

\* PurePath.stem
PathStem(name) ==
    LET i == LastDot(name)
    IN  IF 1 < i /\ i < Len(name) THEN SubSeq(name, 1, i - 1) ELSE name

\* the index of the last "/" of a path string, 0 if there is none
LastSlash(path) ==
    IF \E i \in DOMAIN path : path[i] = "/"
    THEN CHOOSE i \in DOMAIN path :
            path[i] = "/" /\ \A j \in (i + 1)..Len(path) : path[j] # "/"
    ELSE 0

\* PurePath.parent
PathParent(path) ==
    IF LastSlash(path) = 0 THEN <<".">> ELSE SubSeq(path, 1, LastSlash(path) - 1)

\* PurePath.name
PathName(path) == Drop(path, LastSlash(path))

\* a / b, b a file name or a relative path: an empty b adds nothing
PathJoin(a, b) == IF b = <<>> THEN a ELSE a \o <<"/">> \o b

-----------------------------------------------------------------------------
(* deduplicator.py *)

\* hash_val[:8] takes this many characters
ShortHashLen == 8

\* the dict the loop over the photos builds: an entry for every hash, in the
\* order the hashes first appear, holding the photos of that hash in list
\* order.  rest is what is left of the hashed photos: its first photo opens
\* the next entry.
group_by_content_hash(list) ==
    LET HasHash(p) == p.content_hash # None /\ p.content_hash # <<>>
        RECURSIVE Loop(_, _)
        Loop(rest, groups) ==
            IF rest = <<>> THEN groups
            ELSE LET Same(p) == p.content_hash = rest[1].content_hash
                     Other(p) == p.content_hash # rest[1].content_hash
                 IN  Loop(SelectSeq(rest, Other),
                          Append(groups, [key |-> rest[1].content_hash,
                                          val |-> SelectSeq(rest, Same)]))
    IN  Loop(SelectSeq(list, HasHash), <<>>)

\* replace(microsecond=0) left out: the datetime as it is
KeepMicrosecond(date) == date

\* date_taken.replace(microsecond=0)
ReplaceMicrosecond0(date) == [date EXCEPT ![7] = 0]

ExifKey(photo) ==
    <<ReplaceMicrosecond0(photo.date_taken), photo.camera_make, photo.camera_model>>

\* the dict the loop over the photos builds, entry by entry as for the hashes
group_by_exif_datetime(list) ==
    LET HasDate(p) == p.date_taken # None
        RECURSIVE Loop(_, _)
        Loop(rest, groups) ==
            IF rest = <<>> THEN groups
            ELSE LET Same(p) == ExifKey(p) = ExifKey(rest[1])
                     Other(p) == ExifKey(p) # ExifKey(rest[1])
                 IN  Loop(SelectSeq(rest, Other),
                          Append(groups, [key |-> ExifKey(rest[1]),
                                          val |-> SelectSeq(rest, Same)]))
    IN  Loop(SelectSeq(list, HasDate), <<>>)

suffixes_to_remove ==
    << <<"_","e","d","i","t","e","d">>, <<"_","c","o","p","y">>,
       <<"_","1">>, <<"_","2">>, <<"-","1">>, <<"-","2">>,
       <<" ","(","1",")">>, <<" ","(","2",")">> >>

\* the loop over suffixes_to_remove, applied to one name
RemoveSuffixes(base) ==
    LET RECURSIVE Loop(_, _)
        Loop(k, b) ==
            IF k > Len(suffixes_to_remove) THEN b
            ELSE Loop(k + 1,
                      IF EndsWith(b, suffixes_to_remove[k])
                      THEN Take(b, Len(b) - Len(suffixes_to_remove[k]))
                      ELSE b)
    IN  Loop(1, base)

\* the alternatives of r'^(img_|dsc|photo|pic|image|img)(\d+)', in order
SimilarPrefixes ==
    << <<"i","m","g","_">>, <<"d","s","c">>, <<"p","h","o","t","o">>,
       <<"p","i","c">>, <<"i","m","a","g","e">>, <<"i","m","g">> >>

\* the longest run of digits at the start of s
RECURSIVE DigitRun(_)
DigitRun(s) ==
    IF s # <<>> /\ IsDigit(s[1]) THEN <<s[1]>> \o DigitRun(Tail(s)) ELSE <<>>

\* re.match(pattern, base): None, or group(2) of the match
SimilarMatch(base) ==
    LET hits == {k \in DOMAIN SimilarPrefixes :
                    /\ StartsWith(base, SimilarPrefixes[k])
                    /\ DigitRun(Drop(base, Len(SimilarPrefixes[k]))) # <<>>}
    IN  IF hits = {} THEN None
        ELSE LET k == CHOOSE x \in hits : \A y \in hits : x <= y
             IN  DigitRun(Drop(base, Len(SimilarPrefixes[k])))

\* the comparison of the two names after the loop over the suffixes
CompareBases(base1, base2) ==
    LET match1 == SimilarMatch(base1)
        match2 == SimilarMatch(base2)
    IN  IF match1 # None /\ match2 # None THEN match1 = match2
        ELSE IF Contains(base2, base1) \/ Contains(base1, base2)
             THEN Len(base1) > 5 /\ Len(base2) > 5
             ELSE FALSE

is_similar_filename(name1, name2) ==
    CompareBases(RemoveSuffixes(Lower(name1)), RemoveSuffixes(Lower(name2)))

\* photo.file_path.stem
StemOf(photo) == PathStem(photo.file_path.name)

\* the groups dict built by the two loops, before the final filter
FilenameClusters(list) ==
    LET RECURSIVE Outer(_, _, _)
        Outer(i, groups, processed) ==
            IF i > Len(list) THEN groups
            ELSE IF i \in processed THEN Outer(i + 1, groups, processed)
            ELSE LET group_key == StemOf(list[i])
                     similar == {j \in (i + 1)..Len(list) :
                                    /\ j \notin processed
                                    /\ is_similar_filename(StemOf(list[i]), StemOf(list[j]))}
                     js == Ascending(similar)
                     RECURSIVE Inner(_, _)
                     Inner(n, g) ==
                         IF n > Len(js) THEN g
                         ELSE Inner(n + 1, DictAppend(g, group_key, list[js[n]]))
                 IN  Outer(i + 1,
                           Inner(1, DictAppend(groups, group_key, list[i])),
                           processed \cup {i} \cup similar)
    IN  Outer(1, <<>>, {})

group_by_filename_similarity(list) ==
    LET groups == FilenameClusters(list)
        IsMultiple(e) == Len(e.val) > 1
    IN  SelectSeq(groups, IsMultiple)

\* f"hash_{hash_val[:8]}"
HashGroupId(hash_val) == <<"h","a","s","h","_">> \o Take(hash_val, ShortHashLen)

\* f"exif_{group_id_counter}"
ExifGroupId(n) == <<"e","x","i","f","_">> \o DigitsOf(n)

\* f"filename_{group_id_counter}"
FilenameGroupId(n) == <<"f","i","l","e","n","a","m","e","_">> \o DigitsOf(n)

\* the file_path of every member of every group of a dict
GroupedPaths(dg) ==
    UNION {{dg[i].val[j].file_path : j \in DOMAIN dg[i].val} : i \in DOMAIN dg}

\* NotGrouped without its filter: every member passes
NotGroupedKeepsAll(list, already_grouped) == list

\* [p for p in list if p.file_path not in already_grouped]
NotGrouped(list, already_grouped) ==
    LET Free(p) == p.file_path \notin already_grouped
    IN  SelectSeq(list, Free)

\* HashMethod without its test len(group) > 1
HashMethodKeepsSingles(list) ==
    LET hash_groups == group_by_content_hash(list)
        RECURSIVE Loop(_, _)
        Loop(i, dg) ==
            IF i > Len(hash_groups) THEN dg
            ELSE Loop(i + 1,
                      DictPut(dg, HashGroupId(hash_groups[i].key), hash_groups[i].val))
    IN  Loop(1, <<>>)

\* Method 1: the hash groups with more than one member
HashMethod(list) ==
    LET hash_groups == group_by_content_hash(list)
        RECURSIVE Loop(_, _)
        Loop(i, dg) ==
            IF i > Len(hash_groups) THEN dg
            ELSE Loop(i + 1,
                      IF Len(hash_groups[i].val) > 1
                      THEN DictPut(dg, HashGroupId(hash_groups[i].key), hash_groups[i].val)
                      ELSE dg)
    IN  Loop(1, <<>>)

\* Method 2: st is [dg, counter]; the exif groups of what hashing left
ExifMethod(list, st) ==
    LET exif_groups == group_by_exif_datetime(list)
        RECURSIVE Loop(_, _)
        Loop(i, s) ==
            IF i > Len(exif_groups) THEN s
            ELSE IF Len(exif_groups[i].val) > 1
            THEN LET ungrouped == NotGrouped(exif_groups[i].val, GroupedPaths(s.dg))
                 IN  Loop(i + 1,
                          IF Len(ungrouped) > 1
                          THEN [dg |-> DictPut(s.dg, ExifGroupId(s.counter + 1), ungrouped),
                                counter |-> s.counter + 1]
                          ELSE s)
            ELSE Loop(i + 1, s)
    IN  Loop(1, st)

\* Method 3: the filename groups of what the first two methods left
FilenameMethod(list, st) ==
    LET ungrouped_photos == NotGrouped(list, GroupedPaths(st.dg))
        filename_groups == group_by_filename_similarity(ungrouped_photos)
        RECURSIVE Loop(_, _)
        Loop(i, s) ==
            IF i > Len(filename_groups) THEN s
            ELSE Loop(i + 1,
                      IF Len(filename_groups[i].val) > 1
                      THEN [dg |-> DictPut(s.dg, FilenameGroupId(s.counter + 1),
                                           filename_groups[i].val),
                            counter |-> s.counter + 1]
                      ELSE s)
    IN  Loop(1, st)

detect_duplicates(list, skip) ==
    LET m1 == [dg |-> HashMethod(list), counter |-> 0]
        m2 == ExifMethod(list, m1)
    IN  IF ~skip THEN FilenameMethod(list, m2).dg ELSE m2.dg

-----------------------------------------------------------------------------
(* selector.py *)

\* count_exif_fields counting nothing
count_exif_fields_none(md) == 0

\* len(metadata.exif_data)
count_exif_fields(md) == Len(md.exif_data)

\* the sort key (p.size, count_exif_fields(p))
SortKey(p) == <<p.size, count_exif_fields(p)>>

\* KeyGreater turned around: the sort is ascending
KeyLess(k1, k2) == k1[1] < k2[1] \/ (k1[1] = k2[1] /\ k1[2] < k2[2])

\* tuple comparison k1 > k2
KeyGreater(k1, k2) == k1[1] > k2[1] \/ (k1[1] = k2[1] /\ k1[2] > k2[2])

\* sorted(list, key=SortKey, reverse=True): stable, largest key first
SortedDescending(list) ==
    LET rank(i) ==
            Cardinality({j \in DOMAIN list : KeyGreater(SortKey(list[j]), SortKey(list[i]))})
            + Cardinality({j \in 1..i : SortKey(list[j]) = SortKey(list[i])})
    IN  [n \in DOMAIN list |-> list[CHOOSE i \in DOMAIN list : rank(i) = n]]

\* select_best_photo answering an empty list with None instead of raising
select_best_photo_sentinel(list) ==
    IF list = <<>> THEN Returned(None)
    ELSE IF Len(list) = 1 THEN Returned(list[1])
    ELSE Returned(SortedDescending(list)[1])

select_best_photo(list) ==
    IF list = <<>> THEN ValueError
    ELSE IF Len(list) = 1 THEN Returned(list[1])
    ELSE Returned(SortedDescending(list)[1])

\* the loop over duplicate_groups.items(); st is [keep, exclude, raised]
SelectFromGroups(dg) ==
    LET RECURSIVE Loop(_, _)
        Loop(i, st) ==
            IF i > Len(dg) \/ st.raised THEN st
            ELSE LET r == select_best_photo(dg[i].val)
                 IN  IF r.raised # "no" THEN [st EXCEPT !.raised = TRUE]
                     ELSE Loop(i + 1,
                               [st EXCEPT
                                  !.keep = @ \cup {r.value},
                                  !.exclude = @ \cup {p \in Range(dg[i].val) : p # r.value}])
    IN  Loop(1, [keep |-> {}, exclude |-> {}, raised |-> FALSE])

\* select_unique_photos keeping every photo, excluded or not
select_unique_photos_keeps_excluded(all_photos, dg) ==
    LET st == SelectFromGroups(dg)
    IN  IF st.raised THEN st
        ELSE [st EXCEPT !.keep = @ \cup Range(all_photos)]

\* st again, after the loop over all_photos
select_unique_photos(all_photos, dg) ==
    LET st == SelectFromGroups(dg)
    IN  IF st.raised THEN st
        ELSE [st EXCEPT !.keep = @ \cup {p \in Range(all_photos) : p \notin st.exclude}]

-----------------------------------------------------------------------------
(* Regular expressions of namer.py: a pattern is a sequence of tokens, each  *)
(* a character class repeated between min and max times (max -1: unbounded) *)

Digit == Range(DigitChars)

\* \s
WhiteSpace == {" ", "\t", "\n"}

Lit(c) == [cls |-> {c}, min |-> 1, max |-> 1]

\* the literal text of a pattern
LitSeq(str) == [i \in 1..Len(str) |-> Lit(str[i])]

\* cls+
OneOrMore(cls) == [cls |-> cls, min |-> 1, max |-> -1]

\* cls*
ZeroOrMore(cls) == [cls |-> cls, min |-> 0, max |-> -1]

\* cls{n}
Exactly(cls, n) == [cls |-> cls, min |-> n, max |-> n]

\* cls?
Optional(cls) == [cls |-> cls, min |-> 0, max |-> 1]

\* the length of the longest prefix of s made of characters of cls
RECURSIVE ClassRun(_, _)
ClassRun(s, cls) ==
    IF s # <<>> /\ s[1] \in cls THEN 1 + ClassRun(Tail(s), cls) ELSE 0

\* re.match(pattern, s) is not None: the tokens match a prefix of s
RECURSIVE ReMatch(_, _)
ReMatch(toks, s) ==
    IF toks = <<>> THEN TRUE
    ELSE LET t == toks[1]
             avail == ClassRun(s, t.cls)
             most == IF t.max = -1 \/ avail < t.max THEN avail ELSE t.max
         IN  \E n \in t.min..most : ReMatch(Tail(toks), Drop(s, n))

-----------------------------------------------------------------------------
(* namer.py *)

\* NON_MEANINGFUL_PATTERNS, each anchored at the start
NON_MEANINGFUL_PATTERNS ==
    << LitSeq(<<"I","M","G","_">>) \o <<OneOrMore(Digit)>>,
       LitSeq(<<"D","S","C">>) \o <<OneOrMore(Digit)>>,
       LitSeq(<<"D","S","C","_">>) \o <<OneOrMore(Digit)>>,
       LitSeq(<<"D","S","C","N">>) \o <<OneOrMore(Digit)>>,
       LitSeq(<<"P">>) \o <<Exactly(Digit, 8)>>,
       LitSeq(<<"V","I","D","_">>) \o <<OneOrMore(Digit)>>,
       LitSeq(<<"S","A","M","_">>) \o <<OneOrMore(Digit)>>,
       LitSeq(<<"S","c","r","e","e","n","s","h","o","t">>),
       LitSeq(<<"P","h","o","t","o">>) \o <<ZeroOrMore(WhiteSpace), OneOrMore(Digit)>>,
       LitSeq(<<"I","m","a","g","e">>) \o <<ZeroOrMore(WhiteSpace), OneOrMore(Digit)>>,
       LitSeq(<<"p","i","c",".">>) \o <<OneOrMore(Digit)>>,
       LitSeq(<<"P","i","c","t","u","r","e">>) \o <<ZeroOrMore(WhiteSpace), OneOrMore(Digit)>> >>

\* r'^\d{4}[-_]?\d{2}[-_]?\d{2}'
DatePattern ==
    <<Exactly(Digit, 4), Optional({"-", "_"}), Exactly(Digit, 2),
      Optional({"-", "_"}), Exactly(Digit, 2)>>

descriptive_words ==
    << <<"p","h","o","t","o">>, <<"p","i","c","t","u","r","e">>,
       <<"i","m","a","g","e">>, <<"e","v","e","n","t">>, <<"t","r","i","p">>,
       <<"v","a","c","a","t","i","o","n">>, <<"b","i","r","t","h","d","a","y">>,
       <<"w","e","d","d","i","n","g">> >>

\* s.replace('_', ' ').replace('-', ' ')
ReplaceSeparators(s) ==
    [i \in 1..Len(s) |-> IF s[i] \in {"_", "-"} THEN " " ELSE s[i]]

\* names shorter than this are not meaningful
MinMeaningfulLen == 5

is_meaningful_filename(filename) ==
    LET filename_lower == Lower(filename)
        spaced == ReplaceSeparators(filename_lower)
    IN  IF \E k \in DOMAIN NON_MEANINGFUL_PATTERNS :
              ReMatch(NON_MEANINGFUL_PATTERNS[k], filename_lower)
        THEN FALSE
        ELSE IF Len(filename) < MinMeaningfulLen THEN FALSE
        ELSE IF ReMatch(DatePattern, spaced) THEN FALSE
        ELSE IF \E k \in DOMAIN descriptive_words : Contains(spaced, descriptive_words[k])
        THEN TRUE
        ELSE TRUE

\* the class r'[<>:"/\\|?*]'
invalid_chars == {"<", ">", ":", "\"", "/", "\\", "|", "?", "*"}

\* the first index at or after i whose character is not in cs (Len(s)+1: none)
RECURSIVE SkipForward(_, _, _)
SkipForward(s, i, cs) ==
    IF i <= Len(s) /\ s[i] \in cs THEN SkipForward(s, i + 1, cs) ELSE i

\* the last index at or before i whose character is not in cs (0: none)
RECURSIVE SkipBackward(_, _, _)
SkipBackward(s, i, cs) ==
    IF i >= 1 /\ s[i] \in cs THEN SkipBackward(s, i - 1, cs) ELSE i

\* s.strip(cs)
Strip(s, cs) == SubSeq(s, SkipForward(s, 1, cs), SkipBackward(s, Len(s), cs))

\* the longest stem sanitize_filename returns
MaxStemLen == 200

\* sanitize_filename without its length limit
sanitize_filename_uncut(filename) ==
    Strip([i \in 1..Len(filename) |->
              IF filename[i] \in invalid_chars THEN "_" ELSE filename[i]], {".", " "})

sanitize_filename(filename) ==
    LET replaced == [i \in 1..Len(filename) |->
                        IF filename[i] \in invalid_chars THEN "_" ELSE filename[i]]
        stripped == Strip(replaced, {".", " "})
    IN  IF Len(stripped) > MaxStemLen THEN Take(stripped, MaxStemLen) ELSE stripped

\* date.strftime("%Y-%m-%d_%H-%M-%S")
Strftime(date) ==
    ZeroPad(date[1], 4) \o <<"-">> \o ZeroPad(date[2], 2) \o <<"-">> \o ZeroPad(date[3], 2)
    \o <<"_">> \o ZeroPad(date[4], 2) \o <<"-">> \o ZeroPad(date[5], 2)
    \o <<"-">> \o ZeroPad(date[6], 2)

generate_datetime_name(md, extension) ==
    LET date == IF md.date_taken # None THEN md.date_taken ELSE FromTimestamp(md.mtime)
    IN  Strftime(date) \o extension

\* the largest counter of the first probe (counter > 9999 ends it)
SuffixLimit == 9999

\* used_names is a finite set of path strings, written as the strings listed
\* one by one (paths) and, for each r in ranges, all the strings
\* <r.parent>/<r.stem>_<k:03d><r.extension> with k in 1..SuffixLimit
NoNames == [paths |-> {}, ranges |-> {}]

\* the local variables of ensure_unique_filename before they are assigned
NoLocals == [stem |-> None, extension |-> None, parent |-> None, timestamp_stem |-> None]

\* the value of a string of digits
RECURSIVE ValueOf(_)
ValueOf(digits) ==
    IF digits = <<>> THEN 0
    ELSE 10 * ValueOf(Take(digits, Len(digits) - 1))
         + ((CHOOSE i \in DOMAIN DigitChars : DigitChars[i] = digits[Len(digits)]) - 1)

\* f"{stem}_{counter:03d}{extension}"
SuffixedName(stem, n, extension) == stem \o <<"_">> \o ZeroPad(n, 3) \o extension

\* the suffixed candidates of a path
CandidatesOf(path) ==
    [parent |-> PathParent(path), stem |-> PathStem(PathName(path)),
     extension |-> PathSuffix(PathName(path))]

\* str is one of the suffixed candidates 1..SuffixLimit that r stands for:
\* it is <r.parent>/<r.stem>_ and r.extension with the digits mid between
InRange(str, r) ==
    \E pre \in {PathJoin(r.parent, r.stem \o <<"_">>)} :
        /\ Len(str) >= Len(pre) + Len(r.extension) + 3
        /\ StartsWith(str, pre)
        /\ EndsWith(str, r.extension)
        /\ \E mid \in {SubSeq(str, Len(pre) + 1, Len(str) - Len(r.extension))} :
              /\ \A i \in DOMAIN mid : IsDigit(mid[i])
              /\ \E n \in {ValueOf(mid)} : n \in 1..SuffixLimit /\ ZeroPad(n, 3) = mid

\* "in" with a Path object on the left: a set of strings never holds it
InUsedPathObject(str, used) == FALSE

\* str in used_names
InUsed(str, used) ==
    str \in used.paths \/ \E r \in used.ranges : InRange(str, r)

\* used_names.add(str)
AddUsed(used, str) == [used EXCEPT !.paths = @ \cup {str}]

-----------------------------------------------------------------------------
(* organizer.py *)

get_photo_date(md) ==
    IF md.date_taken # None THEN md.date_taken ELSE FromTimestamp(md.mtime)

\* Path(f"{year:04d}") / f"{month:02d}" / f"{day:02d}"
get_date_folder(date) ==
    PathJoin(PathJoin(ZeroPad(date[1], 4), ZeroPad(date[2], 2)), ZeroPad(date[3], 2))

\* the dict organize_by_date returns, as a function on the photos given
organize_by_date(given) ==
    [md \in given |-> PathJoin(get_date_folder(get_photo_date(md)), md.file_path.name)]

-----------------------------------------------------------------------------
(* analyzer.py: the PhotoMetadata objects a batch can hold *)

\* datetimes
Date1 == <<2023, 6, 1, 10, 0, 0, 0>>
Date1Late == <<2023, 6, 1, 10, 0, 0, 500000>>
Date2 == <<2023, 6, 2, 9, 30, 5, 0>>

\* exif_data.get(key)
ExifGet(exif_data, key) ==
    IF DictHas(exif_data, key) THEN DictGet(exif_data, key) ELSE None

\* the object analyze_photo builds for the i-th file, which is c.stem + c.ext
\* in directory d<i>
PhotoMetadata(i, c) ==
    [file_path |-> [parent |-> <<"d">> \o DigitsOf(i), name |-> c.stem \o c.ext],
     size |-> c.size,
     mtime |-> 0,
     content_hash |-> c.content_hash,
     exif_data |-> c.exif_data,
     date_taken |-> c.date_taken,
     camera_make |-> ExifGet(c.exif_data, "Make"),
     camera_model |-> ExifGet(c.exif_data, "Model")]

\* the batches of at most n files whose facts are drawn from Choices
Batches(n, Choices) ==
    UNION {{[i \in 1..k |-> PhotoMetadata(i, f[i])] : f \in [1..k -> Choices]} : k \in 0..n}

Jpg == <<".","j","p","g">>

\* hex digests; HashA and HashB share their first 8 characters
HashA == <<"a","a","a","a","a","a","a","a","1">>
HashB == <<"a","a","a","a","a","a","a","a","2">>
HashC == <<"b","b","b","b","b","b","b","b","1">>

Pixel == <<"P","i","x","e","l">>

NoExif == <<>>

\* stems, both too short to be similar to anything: IMG_1 loses its _1 and
\* is compared as img
StemImg1 == <<"I","M","G","_","1">>
StemAbc == <<"a","b","c">>

MaxPhotos == 4

\* the facts of a file of a batch: hashed or not, taken at one of two times,
\* named IMG_1 (5 MB) or abc (4 MB)
BatchChoices ==
    {c \in [stem : {StemImg1, StemAbc}, ext : {Jpg}, size : {4, 5},
            content_hash : {None, HashA}, exif_data : {NoExif},
            date_taken : {Date1, Date2}] :
        c.size = 5 <=> c.stem = StemImg1}

\* the facts of a file of a batch in which hashes decide: three digests, two
\* of them with the same first 8 characters
HashChoices ==
    [stem : {StemAbc}, ext : {Jpg}, size : {4},
     content_hash : {None, HashA, HashB, HashC}, exif_data : {NoExif},
     date_taken : {Date1, Date2}]

MaxGroup == 3

\* the members of a list handed to select_best_photo
GroupChoices ==
    [stem : {StemAbc}, ext : {Jpg}, size : {4, 5},
     content_hash : {None},
     exif_data : {NoExif,
                  <<[key |-> "Make", val |-> Pixel]>>,
                  <<[key |-> "Make", val |-> <<>>]>>,
                  <<[key |-> "Make", val |-> Pixel], [key |-> "Model", val |-> <<>>]>>,
                  <<[key |-> "Make", val |-> <<>>], [key |-> "Model", val |-> <<>>]>>,
                  <<[key |-> "Make", val |-> Pixel], [key |-> "Model", val |-> <<"7">>]>>},
     date_taken : {Date1}]

-----------------------------------------------------------------------------
(* cli.py: steps 3 and 4 of main, and a call of select_best_photo *)

\* len(photos) above this switches the filename method off
LargeDataset == 5000

\* nothing of steps 5 and 6 has happened
NamesIdle ==
    /\ organized = <<>>
    /\ remaining = {}
    /\ named_photos = <<>>
    /\ used_names = NoNames
    /\ metadata = None
    /\ base_path = None
    /\ counter = 0
    /\ locals = NoLocals
    /\ final_path = None
    /\ run = 1
    /\ first_named = <<>>

\* no string function is being called
FnIdle == fn_arg = None /\ fn_ret = None /\ bases = None

\* nothing of steps 3 and 4 has happened
DedupIdle ==
    /\ photos = <<>>
    /\ skip_filename_similarity = FALSE
    /\ duplicate_groups = <<>>
    /\ photos_to_exclude = {}
    /\ group = <<>>
    /\ best = NotCalled

\* a batch has been analyzed
InitBatch ==
    /\ pc = "analyzed"
    /\ photos \in Batches(MaxPhotos, BatchChoices)
    /\ skip_filename_similarity \in BOOLEAN
    /\ duplicate_groups = <<>>
    /\ photos_to_keep = {}
    /\ photos_to_exclude = {}
    /\ group = <<>>
    /\ best = NotCalled
    /\ NamesIdle
    /\ FnIdle

\* select_best_photo is about to be called with a list
InitGroup ==
    /\ pc = "group"
    /\ photos = <<>>
    /\ skip_filename_similarity = FALSE
    /\ duplicate_groups = <<>>
    /\ photos_to_keep = {}
    /\ photos_to_exclude = {}
    /\ group \in Batches(MaxGroup, GroupChoices)
    /\ best = NotCalled
    /\ NamesIdle
    /\ FnIdle

\* a batch in which hashes decide has been analyzed
InitHash ==
    /\ pc = "analyzed"
    /\ photos \in Batches(MaxPhotos, HashChoices)
    /\ skip_filename_similarity \in BOOLEAN
    /\ duplicate_groups = <<>>
    /\ photos_to_keep = {}
    /\ photos_to_exclude = {}
    /\ group = <<>>
    /\ best = NotCalled
    /\ NamesIdle
    /\ FnIdle

Init == InitBatch \/ InitGroup

\* Step 3 without the test of len(photos)
DetectAlwaysRuns ==
    /\ pc = "analyzed"
    /\ skip_filename_similarity' = skip_filename_similarity
    /\ duplicate_groups' = detect_duplicates(photos, skip_filename_similarity')
    /\ pc' = "detected"
    /\ UNCHANGED <<photos, photos_to_keep, photos_to_exclude, group, best, nameVars, fnVars>>

\* Step 3
Detect ==
    /\ pc = "analyzed"
    /\ skip_filename_similarity' =
          (skip_filename_similarity \/ Len(photos) > LargeDataset)
    /\ duplicate_groups' = detect_duplicates(photos, skip_filename_similarity')
    /\ pc' = "detected"
    /\ UNCHANGED <<photos, photos_to_keep, photos_to_exclude, group, best, nameVars, fnVars>>

\* Step 4
Select ==
    /\ pc = "detected"
    /\ LET st == select_unique_photos(photos, duplicate_groups)
       IN  /\ photos_to_keep' = st.keep
           /\ photos_to_exclude' = st.exclude
           /\ pc' = IF st.raised THEN "error" ELSE "selected"
    /\ UNCHANGED <<photos, skip_filename_similarity, duplicate_groups, group, best,
                   nameVars, fnVars>>

SelectBest ==
    /\ pc = "group"
    /\ best' = select_best_photo(group)
    /\ pc' = "best"
    /\ UNCHANGED <<photos, skip_filename_similarity, duplicate_groups,
                   photos_to_keep, photos_to_exclude, group, nameVars, fnVars>>

Next == Detect \/ Select \/ SelectBest

Spec == Init /\ [][Next]_vars

\* a call of select_best_photo alone
SpecBest == InitGroup /\ [][SelectBest]_vars

NextBatch == Detect \/ Select

\* steps 3 and 4 alone
SpecBatch == InitBatch /\ [][NextBatch]_vars

SpecHash == InitHash /\ [][NextBatch]_vars

-----------------------------------------------------------------------------
(* cli.py steps 5 and 6: organize_by_date and generate_names.  A set of     *)
(* PhotoMetadata objects iterates in an order the program does not fix, and *)
(* the dicts built from it keep that order: the loop of generate_names     *)
(* takes any item not yet taken.                                             *)

destination_root == <<"o","u","t">>

\* the path generate_names wants for md, before uniqueness
DesiredPath(md, date_path) ==
    LET original_filename == md.file_path.name
        stem == PathStem(original_filename)
        extension == Lower(PathSuffix(original_filename))
        new_filename == IF is_meaningful_filename(stem)
                        THEN sanitize_filename(stem) \o extension
                        ELSE generate_datetime_name(md, extension)
        date_folder == PathParent(date_path)
    IN  PathJoin(PathJoin(destination_root, date_folder), new_filename)

\* Step 5
Organize ==
    /\ pc = "selected"
    /\ organized' = organize_by_date(photos_to_keep)
    /\ pc' = "organized"
    /\ UNCHANGED <<dedupVars, fnVars, locals, remaining, named_photos, used_names, metadata,
                   base_path, counter, final_path, run, first_named>>

\* Step 6, generate_names up to its loop
NamesBegin ==
    /\ pc = "organized"
    /\ named_photos' = <<>>
    /\ used_names' = NoNames
    /\ remaining' = DOMAIN organized
    /\ pc' = "names_loop"
    /\ UNCHANGED <<dedupVars, fnVars, locals, organized, metadata, base_path, counter,
                   final_path, run, first_named>>

\* the loop takes the next item and calls ensure_unique_filename
NameNext ==
    /\ pc = "names_loop"
    /\ \E md \in remaining :
          /\ metadata' = md
          /\ base_path' = DesiredPath(md, organized[md])
          /\ remaining' = remaining \ {md}
    /\ pc' = "unique"
    /\ UNCHANGED <<dedupVars, fnVars, locals, organized, named_photos, used_names, counter,
                   final_path, run, first_named>>

\* UniqueEnter with counter = 2 for counter = 1
UniqueEnterFromTwo ==
    /\ pc = "unique"
    /\ IF ~InUsed(base_path, used_names)
       THEN /\ final_path' = base_path
            /\ pc' = "returned"
            /\ UNCHANGED <<counter, locals>>
       ELSE /\ locals' = [stem |-> PathStem(PathName(base_path)),
                          extension |-> PathSuffix(PathName(base_path)),
                          parent |-> PathParent(base_path),
                          timestamp_stem |-> None]
            /\ counter' = 2
            /\ pc' = "probe"
            /\ UNCHANGED final_path
    /\ UNCHANGED <<dedupVars, fnVars, organized, remaining, named_photos, used_names,
                   metadata, base_path, run, first_named>>

\* ensure_unique_filename up to its first loop
UniqueEnter ==
    /\ pc = "unique"
    /\ IF ~InUsed(base_path, used_names)
       THEN /\ final_path' = base_path
            /\ pc' = "returned"
            /\ UNCHANGED <<counter, locals>>
       ELSE /\ locals' = [stem |-> PathStem(PathName(base_path)),
                          extension |-> PathSuffix(PathName(base_path)),
                          parent |-> PathParent(base_path),
                          timestamp_stem |-> None]
            /\ counter' = 1
            /\ pc' = "probe"
            /\ UNCHANGED final_path
    /\ UNCHANGED <<dedupVars, fnVars, organized, remaining, named_photos, used_names,
                   metadata, base_path, run, first_named>>

\* one pass of the first loop, with the fallback that ends it
UniqueProbe ==
    /\ pc = "probe"
    /\ \E new_path \in {PathJoin(locals.parent,
                                 SuffixedName(locals.stem, counter, locals.extension))} :
          IF ~InUsed(new_path, used_names)
          THEN final_path' = new_path /\ pc' = "returned" /\ UNCHANGED <<counter, locals>>
          ELSE IF counter + 1 > SuffixLimit
          THEN \E timestamp_name \in {generate_datetime_name(metadata, locals.extension)} :
               \E timestamp_path \in {PathJoin(locals.parent, timestamp_name)} :
                  IF ~InUsed(timestamp_path, used_names)
                  THEN /\ final_path' = timestamp_path
                       /\ pc' = "returned"
                       /\ UNCHANGED <<counter, locals>>
                  ELSE /\ locals' = [locals EXCEPT
                                        !.timestamp_stem = PathStem(timestamp_name)]
                       /\ counter' = 1
                       /\ pc' = "last"
                       /\ UNCHANGED final_path
          ELSE counter' = counter + 1 /\ pc' = "probe" /\ UNCHANGED <<final_path, locals>>
    /\ UNCHANGED <<dedupVars, fnVars, organized, remaining, named_photos, used_names,
                   metadata, base_path, run, first_named>>

\* UniqueLast without its counter += 1
UniqueLastStuck ==
    /\ pc = "last"
    /\ \E new_path \in {PathJoin(locals.parent,
                                 SuffixedName(locals.timestamp_stem, counter,
                                              locals.extension))} :
          IF ~InUsed(new_path, used_names)
          THEN final_path' = new_path /\ pc' = "returned" /\ UNCHANGED counter
          ELSE counter' = counter /\ pc' = "last" /\ UNCHANGED final_path
    /\ UNCHANGED <<dedupVars, fnVars, organized, remaining, named_photos, used_names,
                   metadata, base_path, locals, run, first_named>>

\* one pass of the last-resort loop
UniqueLast ==
    /\ pc = "last"
    /\ \E new_path \in {PathJoin(locals.parent,
                                 SuffixedName(locals.timestamp_stem, counter,
                                              locals.extension))} :
          IF ~InUsed(new_path, used_names)
          THEN final_path' = new_path /\ pc' = "returned" /\ UNCHANGED counter
          ELSE counter' = counter + 1 /\ pc' = "last" /\ UNCHANGED final_path
    /\ UNCHANGED <<dedupVars, fnVars, organized, remaining, named_photos, used_names,
                   metadata, base_path, locals, run, first_named>>

\* back in generate_names: the path is recorded
NamesAssign ==
    /\ pc = "returned"
    /\ used_names' = AddUsed(used_names, final_path)
    /\ named_photos' = DictPut(named_photos, metadata, final_path)
    /\ pc' = "names_loop"
    /\ UNCHANGED <<dedupVars, fnVars, locals, organized, remaining, metadata, base_path,
                   counter, final_path, run, first_named>>

\* the loop is over
NamesEnd ==
    /\ pc = "names_loop"
    /\ remaining = {}
    /\ pc' = "named"
    /\ UNCHANGED <<dedupVars, fnVars, nameVars>>

\* the program is run once more on the same files
Rerun ==
    /\ pc = "named"
    /\ run = 1
    /\ run' = 2
    /\ first_named' = named_photos
    /\ pc' = "selected"
    /\ organized' = <<>>
    /\ named_photos' = <<>>
    /\ used_names' = NoNames
    /\ metadata' = None
    /\ base_path' = None
    /\ counter' = 0
    /\ locals' = NoLocals
    /\ final_path' = None
    /\ UNCHANGED <<dedupVars, fnVars, remaining>>

-----------------------------------------------------------------------------
(* The batches steps 5 and 6 are run on, and the calls of                   *)
(* ensure_unique_filename and of the string functions                       *)

JpgUpper == <<".","J","P","G">>

StemWedding == <<"W","e","d","d","i","n","g">>
StemWedding001 == <<"W","e","d","d","i","n","g","_","0","0","1">>
StemPic1 == <<"p","i","c",".","1">>

\* the facts of a kept file: Wedding.jpg, Wedding.JPG and Wedding_001.jpg of
\* one day, Wedding.jpg of another, and pic.1.jpg taken at three times, two
\* of them within the same second
NameChoices ==
    [stem : {StemWedding, StemWedding001}, ext : {Jpg}, size : {4},
     content_hash : {None}, exif_data : {NoExif}, date_taken : {Date1}]
    \cup
    [stem : {StemWedding}, ext : {JpgUpper, Jpg}, size : {4},
     content_hash : {None}, exif_data : {NoExif}, date_taken : {Date1, Date2}]
    \cup
    [stem : {StemPic1}, ext : {Jpg}, size : {4},
     content_hash : {None}, exif_data : {NoExif},
     date_taken : {Date1, Date1Late, Date2}]

MaxKept == 3

\* a keep-set has been selected
InitNames ==
    /\ pc = "selected"
    /\ photos_to_keep \in {Range(b) : b \in Batches(MaxKept, NameChoices)}
    /\ DedupIdle
    /\ NamesIdle
    /\ FnIdle

NextNames ==
    \/ Organize
    \/ NamesBegin
    \/ NameNext
    \/ UniqueEnter
    \/ UniqueProbe
    \/ NamesAssign
    \/ NamesEnd

SpecNames == InitNames /\ [][NextNames]_vars

NextRuns == NextNames \/ Rerun

SpecRuns == InitNames /\ [][NextRuns]_vars

\* the photos ensure_unique_filename is called for
UniqueChoices ==
    [stem : {StemWedding, StemPic1}, ext : {Jpg}, size : {4},
     content_hash : {None}, exif_data : {NoExif}, date_taken : {Date1}]

\* the paths the call for md can look up, after its desired path base
FirstSuffixed(base, n) ==
    PathJoin(PathParent(base),
             SuffixedName(PathStem(PathName(base)), n, PathSuffix(PathName(base))))

TimestampPath(base, md) ==
    PathJoin(PathParent(base), generate_datetime_name(md, PathSuffix(PathName(base))))

\* the sets of used names of a call: any of the first paths it looks up, or
\* the desired path with all its suffixed candidates and any of the
\* fallback's paths, or all suffixed candidates of both
UsedSets(base, md) ==
    LET ts == TimestampPath(base, md)
    IN  {[paths |-> P, ranges |-> {}] :
            P \in SUBSET {base, FirstSuffixed(base, 1), FirstSuffixed(base, 2),
                          ts, FirstSuffixed(ts, 1)}}
        \cup
        {[paths |-> P, ranges |-> {CandidatesOf(base)}] :
            P \in SUBSET {base, ts, FirstSuffixed(ts, 1)}}
        \cup
        {[paths |-> {base, ts}, ranges |-> {CandidatesOf(base), CandidatesOf(ts)}]}

\* ensure_unique_filename is called
InitUnique ==
    /\ pc = "unique"
    /\ photos_to_keep = {}
    /\ DedupIdle
    /\ FnIdle
    /\ organized = <<>>
    /\ remaining = {}
    /\ named_photos = <<>>
    /\ \E c \in UniqueChoices :
          /\ metadata = PhotoMetadata(1, c)
          /\ base_path = DesiredPath(metadata, organize_by_date({metadata})[metadata])
          /\ used_names \in UsedSets(base_path, metadata)
    /\ counter = 0
    /\ locals = NoLocals
    /\ final_path = None
    /\ run = 1
    /\ first_named = <<>>

NextUnique == UniqueEnter \/ UniqueProbe \/ UniqueLast

\* a call that has started runs on
SpecUnique == InitUnique /\ [][NextUnique]_vars /\ WF_vars(NextUnique)

\* str.upper()
Upper(s) ==
    [i \in 1..Len(s) |->
        IF \E k \in 1..Len(LowerAlpha) : LowerAlpha[k] = s[i]
        THEN UpperAlpha[CHOOSE k \in 1..Len(LowerAlpha) : LowerAlpha[k] = s[i]]
        ELSE s[i]]

\* how stems begin: as the device patterns are written, and otherwise
StemStarts ==
    { <<"I","M","G","_">>, <<"D","S","C">>, <<"D","S","C","_">>, <<"D","S","C","N">>,
      <<"P">>, <<"V","I","D","_">>, <<"S","A","M","_">>,
      <<"S","c","r","e","e","n","s","h","o","t">>,
      <<"P","h","o","t","o">>, <<"P","h","o","t","o"," ">>,
      <<"I","m","a","g","e">>, <<"I","m","a","g","e"," ">>,
      <<"p","i","c",".">>,
      <<"P","i","c","t","u","r","e">>, <<"P","i","c","t","u","r","e"," ">>,
      <<"W","e","d","d","i","n","g","_","R","e","c","e","p","t","i","o","n">>,
      <<"a","b","c">>, <<"t","r","i","p">>, <<>> }

\* how they go on: digits, and the three ways of writing a date
StemNumbers ==
    { <<>>, <<"1">>, <<"0","0","4","2">>, <<"1","2","3","4","5","6","7","8">>,
      <<"2","0","2","3","0","6","0","1">>,
      <<"2","0","2","3","-","0","6","-","0","1">>,
      <<"2","0","2","3","_","0","6","_","0","1">> }

StemEnds == { <<>>, <<"_","x">> }

\* the stems is_meaningful_filename is called with, in three letter cases
MeaningfulInputs ==
    UNION {{a \o n \o e, Lower(a \o n \o e), Upper(a \o n \o e)} :
              a \in StemStarts, n \in StemNumbers, e \in StemEnds}

InitMeaningful ==
    /\ pc = "call_meaningful"
    /\ fn_arg \in MeaningfulInputs
    /\ fn_ret = None
    /\ bases = None
    /\ photos_to_keep = {}
    /\ DedupIdle
    /\ NamesIdle

CallMeaningful ==
    /\ pc = "call_meaningful"
    /\ fn_ret' = is_meaningful_filename(fn_arg)
    /\ pc' = "ret_meaningful"
    /\ UNCHANGED <<dedupVars, nameVars, fn_arg, bases>>

SpecMeaningful == InitMeaningful /\ [][CallMeaningful]_vars

\* all strings over an alphabet of at most n characters
Strings(alphabet, n) == UNION {[1..k -> alphabet] : k \in 0..n}

\* n times the character c
Fill(c, n) == [i \in 1..n |-> c]

MaxShort == 2

MaxEdge == 2

\* the stems sanitize_filename is called with: every short string over the
\* invalid characters, dot, space and a letter, and the strings of about
\* MaxStemLen characters that begin and end in any way
SanitizeInputs ==
    Strings(invalid_chars \cup {".", " ", "a"}, MaxShort)
    \cup
    {h \o Fill("a", n) \o t :
        h \in Strings({".", " ", "a", "/"}, 1),
        n \in (MaxStemLen - 3)..(MaxStemLen + 1),
        t \in Strings({".", " ", "a", "/"}, MaxEdge)}

InitSanitize ==
    /\ pc = "call_sanitize"
    /\ fn_arg \in SanitizeInputs
    /\ fn_ret = None
    /\ bases = None
    /\ photos_to_keep = {}
    /\ DedupIdle
    /\ NamesIdle

CallSanitize ==
    /\ pc = "call_sanitize"
    /\ fn_ret' = sanitize_filename(fn_arg)
    /\ pc' = "ret_sanitize"
    /\ UNCHANGED <<dedupVars, nameVars, fn_arg, bases>>

SpecSanitize == InitSanitize /\ [][CallSanitize]_vars

\* sanitize_filename called on its own result
SanitizeAgain ==
    /\ pc = "ret_sanitize"
    /\ fn_arg' = fn_ret
    /\ fn_ret' = sanitize_filename(fn_ret)
    /\ pc' = "ret_again"
    /\ UNCHANGED <<dedupVars, nameVars, bases>>

NextSanitize == CallSanitize \/ SanitizeAgain

SpecSanitizeTwice == InitSanitize /\ [][NextSanitize]_vars

-----------------------------------------------------------------------------
(* Batches in which time and camera decide *)

\* the facts of a file: taken by a Pixel at Date1, half a second later or on
\* another day, or at Date1 by a camera that left no Make, or hashed
ExifChoices ==
    [stem : {StemAbc}, ext : {Jpg}, size : {4}, content_hash : {None},
     exif_data : {<<[key |-> "Make", val |-> Pixel]>>},
     date_taken : {Date1, Date1Late, Date2}]
    \cup
    [stem : {StemAbc}, ext : {Jpg}, size : {4}, content_hash : {None},
     exif_data : {NoExif}, date_taken : {Date1}]
    \cup
    [stem : {StemAbc}, ext : {Jpg}, size : {4}, content_hash : {HashA},
     exif_data : {<<[key |-> "Make", val |-> Pixel]>>}, date_taken : {Date1}]

InitExif ==
    /\ pc = "analyzed"
    /\ photos \in Batches(MaxPhotos, ExifChoices)
    /\ skip_filename_similarity \in BOOLEAN
    /\ duplicate_groups = <<>>
    /\ photos_to_keep = {}
    /\ photos_to_exclude = {}
    /\ group = <<>>
    /\ best = NotCalled
    /\ NamesIdle
    /\ FnIdle

SpecExif == InitExif /\ [][NextBatch]_vars

-----------------------------------------------------------------------------
(* Calls of is_similar_filename *)

\* what a stem can end with: nothing, or suffixes of the list
StemSuffixes ==
    { <<>>, <<"_","e","d","i","t","e","d">>, <<"_","c","o","p","y">>, <<"_","1">>,
      <<" ","(","1",")">> }

StemHoliday == <<"h","o","l","i","d","a","y">>
StemMyHoliday == <<"m","y","_","h","o","l","i","d","a","y">>
StemImg1002 == <<"I","M","G","_","1","0","0","2">>

\* name1 is a stem followed by up to two suffixes, name2 one of a few stems
SimilarInputs ==
    {<<a \o x \o y, b>> :
        a \in {StemHoliday, StemImg1002, StemAbc},
        x \in StemSuffixes, y \in StemSuffixes,
        b \in {StemHoliday, StemMyHoliday, StemAbc,
               StemImg1002 \o <<"_","e","d","i","t","e","d">>}}

InitSimilar ==
    /\ pc = "call_similar"
    /\ fn_arg \in SimilarInputs
    /\ fn_ret = None
    /\ bases = None
    /\ photos_to_keep = {}
    /\ DedupIdle
    /\ NamesIdle

\* is_similar_filename up to the end of its loop over suffixes_to_remove
SimilarStrip ==
    /\ pc = "call_similar"
    /\ bases' = [base1 |-> RemoveSuffixes(Lower(fn_arg[1])),
                 base2 |-> RemoveSuffixes(Lower(fn_arg[2]))]
    /\ pc' = "similar_bases"
    /\ UNCHANGED <<dedupVars, nameVars, fn_arg, fn_ret>>

\* the rest of is_similar_filename
SimilarCompare ==
    /\ pc = "similar_bases"
    /\ fn_ret' = CompareBases(bases.base1, bases.base2)
    /\ pc' = "ret_similar"
    /\ UNCHANGED <<dedupVars, nameVars, fn_arg, bases>>

NextSimilar == SimilarStrip \/ SimilarCompare

SpecSimilar == InitSimilar /\ [][NextSimilar]_vars

-----------------------------------------------------------------------------
(* Batches around the large-dataset threshold of step 3 *)

\* the file that fills a batch: every copy of it has one digest, so that all
\* of them are in one hash group
PadChoice ==
    [stem |-> StemAbc, ext |-> Jpg, size |-> 4, content_hash |-> HashA,
     exif_data |-> NoExif, date_taken |-> Date1]

\* the facts of the last two files of a batch: no digest, named IMG_1002 or
\* abc, taken at one of two times
TailChoices ==
    [stem : {StemImg1002, StemAbc}, ext : {Jpg}, size : {5}, content_hash : {None},
     exif_data : {NoExif}, date_taken : {Date1, Date2}]

\* the last two files of a batch of n: in the batches at the threshold they
\* were taken at different times, so that no exif group takes them
TailsOf(n) ==
    {t \in [1..2 -> TailChoices] :
        n >= LargeDataset => (t[1].date_taken = Date1 /\ t[2].date_taken = Date2)}

\* batches of 2, 3, LargeDataset and LargeDataset + 1 files
LargeBatches ==
    UNION {{[i \in 1..n |->
                PhotoMetadata(i, IF i <= n - 2 THEN PadChoice ELSE t[i - (n - 2)])] :
            t \in TailsOf(n)} :
        n \in {2, 3, LargeDataset, LargeDataset + 1}}

\* a batch around the threshold has been analyzed
InitLarge ==
    /\ pc = "analyzed"
    /\ photos \in LargeBatches
    /\ skip_filename_similarity \in BOOLEAN
    /\ duplicate_groups = <<>>
    /\ photos_to_keep = {}
    /\ photos_to_exclude = {}
    /\ group = <<>>
    /\ best = NotCalled
    /\ NamesIdle
    /\ FnIdle

SpecLarge == InitLarge /\ [][Detect]_vars

-----------------------------------------------------------------------------
(* detect_duplicates called again on the same records in another order, the *)
(* filename method switched off                                             *)

MaxOrder == 4

\* the facts of a file of such a batch: one of two digests with the same
\* first 8 characters, one of two times
OrderChoices ==
    [stem : {StemAbc}, ext : {Jpg}, size : {4}, content_hash : {HashA, HashB},
     exif_data : {NoExif}, date_taken : {Date1, Date2}]

\* a batch has been analyzed and the filename method is switched off
InitOrder ==
    /\ pc = "analyzed"
    /\ photos \in Batches(MaxOrder, OrderChoices)
    /\ skip_filename_similarity = TRUE
    /\ duplicate_groups = <<>>
    /\ photos_to_keep = {}
    /\ photos_to_exclude = {}
    /\ group = <<>>
    /\ best = NotCalled
    /\ NamesIdle
    /\ FnIdle

\* the same records handed to detect_duplicates in any order
DetectAgain ==
    /\ pc = "detected"
    /\ \E order \in Permutations(DOMAIN photos) :
          photos' = [i \in DOMAIN photos |-> photos[order[i]]]
    /\ duplicate_groups' = detect_duplicates(photos', skip_filename_similarity)
    /\ pc' = "detected"
    /\ UNCHANGED <<skip_filename_similarity, photos_to_keep, photos_to_exclude, group,
                   best, nameVars, fnVars>>

NextOrder == Detect \/ DetectAgain

SpecOrder == InitOrder /\ [][NextOrder]_vars

-----------------------------------------------------------------------------
(* Properties *)

\* the positions <<i, j>> of the members of the groups of duplicate_groups
Positions ==
    UNION {{<<i, j>> : j \in DOMAIN duplicate_groups[i].val} : i \in DOMAIN duplicate_groups}

\* the records that are members of some group
Grouped == {duplicate_groups[x[1]].val[x[2]] : x \in Positions}

\* the records of the batch that are in no group
Ungrouped == Range(photos) \ Grouped

\* the file paths of the batch are pairwise distinct
DistinctPaths ==
    \A i, j \in DOMAIN photos : photos[i].file_path = photos[j].file_path => i = j

\* the group at index i was found by the method with this id prefix
FoundBy(i, prefix) == StartsWith(duplicate_groups[i].key, prefix)

\* C1: after detect_duplicates, with either value of the flag, every member of
\* every group is a record of the input and every input record occupies at
\* most one position of the groups altogether (at most one group, at most
\* once in it), so groups and ungrouped records cover the input exactly once.
C1_GroupsDisjoint ==
    pc \in {"detected", "selected"} =>
        /\ \A x \in Positions : duplicate_groups[x[1]].val[x[2]] \in Range(photos)
        /\ \A p \in Range(photos) :
              Cardinality({x \in Positions : duplicate_groups[x[1]].val[x[2]] = p}) <= 1
        /\ Grouped \cup Ungrouped = Range(photos)

C1_Witness ==
    /\ pc = "detected"
    /\ DistinctPaths
    /\ ~skip_filename_similarity
    /\ Len(photos) = 4
    /\ Len(duplicate_groups) = 2
    /\ FoundBy(1, <<"h","a","s","h","_">>)
    /\ FoundBy(2, <<"f","i","l","e","n","a","m","e","_">>)

\* C3: after detect_duplicates and select_unique_photos the keep-set and the
\* exclude-set partition the input, exactly one member of every group is kept,
\* every ungrouped record is kept, and |keep| = |ungrouped| + number of groups.
C3_KeepExcludePartition ==
    pc = "selected" =>
        /\ photos_to_keep \cup photos_to_exclude = Range(photos)
        /\ photos_to_keep \cap photos_to_exclude = {}
        /\ \A i \in DOMAIN duplicate_groups :
              Cardinality(Range(duplicate_groups[i].val) \cap photos_to_keep) = 1
        /\ Ungrouped \subseteq photos_to_keep
        /\ Cardinality(photos_to_keep) = Cardinality(Ungrouped) + Len(duplicate_groups)

C3_Witness ==
    /\ pc = "selected"
    /\ Len(duplicate_groups) = 1
    /\ Cardinality(Ungrouped) = 2
    /\ Cardinality(photos_to_exclude) = 1
    /\ Cardinality(photos_to_keep) = 3

\* C4: after detect_duplicates any two records with the same non-empty
\* content_hash are members of one group, whose id is hash_<first 8
\* characters of the hash>, and of no other group; and every member of a
\* hash group has a content_hash.
C4_SameHashSameGroup ==
    pc = "detected" =>
        /\ \A p, q \in Range(photos) :
              (p # q /\ p.content_hash # None /\ p.content_hash = q.content_hash) =>
                  \E i \in DOMAIN duplicate_groups :
                      /\ duplicate_groups[i].key = HashGroupId(p.content_hash)
                      /\ {p, q} \subseteq Range(duplicate_groups[i].val)
                      /\ \A k \in DOMAIN duplicate_groups \ {i} :
                            {p, q} \cap Range(duplicate_groups[k].val) = {}
        /\ \A i \in DOMAIN duplicate_groups :
              FoundBy(i, <<"h","a","s","h","_">>) =>
                  \A p \in Range(duplicate_groups[i].val) : p.content_hash # None

\* C6: for a non-empty list select_best_photo returns a member of the list
\* and no member is strictly larger than it.
C6_BestIsLargest ==
    (pc = "best" /\ group # <<>>) =>
        /\ best.raised = "no"
        /\ best.value \in Range(group)
        /\ \A q \in Range(group) : q.size <= best.value.size

\* two duplicates of 4 MB and 5 MB, the larger one second: it is the one kept
C6_Witness ==
    /\ pc = "best"
    /\ Len(group) = 2
    /\ group[1].size = 4
    /\ group[2].size = 5
    /\ best = Returned(group[2])

\* the pairs record -> path of a dict
MappingOf(d) == {<<d[i].key, d[i].val>> : i \in DOMAIN d}

\* the last path component of the path a record is named to, without suffix
NamedStems == {PathStem(PathName(named_photos[i].val)) : i \in DOMAIN named_photos}

\* C2: the mapping generate_names builds never gives one path string to two
\* records, in whatever order the records are taken, and when it returns
\* every kept record has a path.
C2_PathsPairwiseDistinct ==
    /\ \A i, j \in DOMAIN named_photos :
          named_photos[i].val = named_photos[j].val => i = j
    /\ pc = "named" =>
          {named_photos[i].key : i \in DOMAIN named_photos} = photos_to_keep

\* two files Wedding.jpg and a file Wedding_001.jpg of one day: the second
\* Wedding.jpg finds Wedding_001.jpg taken too and becomes Wedding_002.jpg
C2_Witness ==
    /\ pc = "named"
    /\ Len(named_photos) = 3
    /\ \E i \in DOMAIN named_photos :
          PathStem(named_photos[i].key.file_path.name) = StemWedding001
    /\ NamedStems = {StemWedding, StemWedding001, StemWedding \o <<"_","0","0","2">>}

\* a pattern with its letters in lower case
LowerPattern(toks) ==
    [i \in DOMAIN toks |-> [toks[i] EXCEPT !.cls = {LowerChar(c) : c \in @}]]

\* the stem matches a device pattern when letter case is ignored
MatchesDevicePattern(stem) ==
    \E k \in DOMAIN NON_MEANINGFUL_PATTERNS :
        ReMatch(LowerPattern(NON_MEANINGFUL_PATTERNS[k]), Lower(stem))

\* C5: is_meaningful_filename returns False for every stem that matches one
\* of the device patterns in any letter case (IMG_0042 among them).
C5_DevicePatternsRejected ==
    (pc = "ret_meaningful" /\ MatchesDevicePattern(fn_arg)) => fn_ret = FALSE

\* C7: a second run on the same kept records gives every record the path it
\* had in the first run, whatever the order the set is iterated in.
C7_SameNamesEveryRun ==
    (pc = "named" /\ run = 2) => MappingOf(named_photos) = MappingOf(first_named)

\* C8: every call of ensure_unique_filename ends by returning a path that is
\* not among the used names, also when all suffixed candidates and the
\* timestamp name are used.
C8_AlwaysReturnsPath ==
    <>(pc = "returned" /\ final_path # None /\ ~InUsed(final_path, used_names))

\* the desired path, its 9999 suffixed candidates and the timestamp name are
\* all used: the call returns the timestamp name with suffix _001
C8_Witness ==
    /\ pc = "returned"
    /\ base_path \in used_names.paths
    /\ CandidatesOf(base_path) \in used_names.ranges
    /\ TimestampPath(base_path, metadata) # base_path
    /\ TimestampPath(base_path, metadata) \in used_names.paths
    /\ final_path = FirstSuffixed(TimestampPath(base_path, metadata), 1)

\* C9: the result of sanitize_filename holds none of < > : " / \ | ? * and is
\* at most 200 characters long.
C9_SanitizedIsSafe ==
    pc = "ret_sanitize" =>
        /\ \A i \in DOMAIN fn_ret :
              fn_ret[i] \notin {"<", ">", ":", "\"", "/", "\\", "|", "?", "*"}
        /\ Len(fn_ret) <= 200

\* a stem of more than 200 characters with a slash in it is cut to 200
C9_Witness ==
    /\ pc = "ret_sanitize"
    /\ Len(fn_arg) > 200
    /\ \E i \in DOMAIN fn_arg : fn_arg[i] = "/"
    /\ Len(fn_ret) = 200

GroupedBy(prefix) ==
    UNION {Range(duplicate_groups[i].val) :
              i \in {k \in DOMAIN duplicate_groups : FoundBy(k, prefix)}}

\* the records p and q of the batch are members of one group of this method
Together(p, q, prefix) ==
    \E i \in DOMAIN duplicate_groups :
        FoundBy(i, prefix) /\ {p, q} \subseteq Range(duplicate_groups[i].val)

\* C11: every group detect_duplicates returns, of whatever method, has at
\* least 2 members.
C11_GroupSizeFloor ==
    pc \in {"detected", "selected"} =>
        \A i \in DOMAIN duplicate_groups : Len(duplicate_groups[i].val) >= 2

\* three records of one time, two of them with one hash: the hash group takes
\* the two, and the third, alone in what is left of its exif group, is in none
C11_Witness ==
    /\ pc = "detected"
    /\ Len(duplicate_groups) = 1
    /\ FoundBy(1, <<"h","a","s","h","_">>)
    /\ \E p \in Ungrouped :
          Cardinality({q \in Grouped : ExifKey(q) = ExifKey(p)}) = 2

\* the tuple (date_taken in whole seconds, camera_make, camera_model)
TimeAndCamera(p) == <<SubSeq(p.date_taken, 1, 6), p.camera_make, p.camera_model>>

\* the records of the batch that are in no hash group
NotInHashGroup == Range(photos) \ GroupedBy(<<"h","a","s","h","_">>)

BothProbesExhausted ==
    /\ {base_path, TimestampPath(base_path, metadata)} \subseteq used_names.paths
    /\ {CandidatesOf(base_path), CandidatesOf(TimestampPath(base_path, metadata))}
          \subseteq used_names.ranges

\* C13: the fallback probe on the timestamp name is capped like the first
\* one, and when both probes are exhausted the call ends without a path for
\* the record (a reported failure) instead of searching on.
C13_FallbackCappedAndFails ==
    /\ pc = "last" => counter <= SuffixLimit
    /\ (pc = "returned" /\ BothProbesExhausted) => final_path = None

\* the position of a record in the batch
IndexIn(p) == CHOOSE i \in DOMAIN photos : photos[i] = p

\* C14: in every filename group the first member is the earliest record of
\* the group in input order and every other member is similar to it under
\* is_similar_filename, so records not similar to the first are never with it.
C14_FilenameGroupAroundFirst ==
    pc = "detected" =>
        \A i \in DOMAIN duplicate_groups :
            FoundBy(i, <<"f","i","l","e","n","a","m","e","_">>) =>
                \A j \in 2..Len(duplicate_groups[i].val) :
                    /\ IndexIn(duplicate_groups[i].val[1]) < IndexIn(duplicate_groups[i].val[j])
                    /\ is_similar_filename(StemOf(duplicate_groups[i].val[1]),
                                           StemOf(duplicate_groups[i].val[j]))

\* the counters 1..9999 whose suffixed path, in the folder of the desired
\* path, is not used
UnusedCounters ==
    LET c == CandidatesOf(base_path)
    IN  {k \in 1..9999 :
            ~InUsed(c.parent \o <<"/">> \o c.stem \o <<"_">> \o ZeroPad(k, 3) \o c.extension,
                    used_names)}

\* C15: ensure_unique_filename returns the desired path when it is unused,
\* otherwise the path with suffix _<k:03d> for the smallest k in 1..9999 whose
\* path is unused, and goes on to the timestamp fallback only when all of the
\* counters 1 to 9999 are used; the first loop tries no other counter.
C15_SmallestUnusedCounter ==
    /\ pc = "probe" => counter \in 1..9999
    /\ (pc = "last" /\ counter = 1) => UnusedCounters = {}
    /\ pc = "returned" =>
          IF ~InUsed(base_path, used_names) THEN final_path = base_path
          ELSE IF UnusedCounters # {}
          THEN LET k == CHOOSE x \in UnusedCounters : \A y \in UnusedCounters : x <= y
               IN  final_path = FirstSuffixed(base_path, k)
          ELSE PathParent(final_path) = PathParent(base_path)

\* the desired path is the timestamp name 2023-06-01_10-00-00.jpg and is
\* used: the call returns 2023-06-01_10-00-00_001.jpg
C15_Witness ==
    /\ pc = "returned"
    /\ base_path = TimestampPath(base_path, metadata)
    /\ used_names = [paths |-> {base_path}, ranges |-> {}]
    /\ PathName(final_path) = Strftime(Date1) \o <<"_","0","0","1">> \o Jpg

\* what is left of a lower-cased stem when at most one trailing suffix of the
\* list is stripped from it: the stem, or the stem without one suffix it ends with
AtMostOneStripped(b) ==
    {b} \cup {Take(b, Len(b) - Len(suffixes_to_remove[k])) :
                 k \in {x \in DOMAIN suffixes_to_remove : EndsWith(b, suffixes_to_remove[x])}}

\* C16: is_similar_filename strips at most one trailing suffix of the list
\* from each lower-cased stem before it compares them.
C16_AtMostOneSuffixStripped ==
    pc \in {"similar_bases", "ret_similar"} =>
        /\ bases.base1 \in AtMostOneStripped(Lower(fn_arg[1]))
        /\ bases.base2 \in AtMostOneStripped(Lower(fn_arg[2]))

\* the members of the list that have the size of the one returned
LargestOfGroup == {q \in Range(group) : q.size = best.value.size}

\* the number of fields of exif_data whose value is not empty
NonEmptyFields(p) ==
    Cardinality({i \in DOMAIN p.exif_data : p.exif_data[i].val # <<>>})

\* C17, as claimed: among the members of the largest size the one returned
\* has the greatest number of non-empty EXIF fields.
C17_MostNonEmptyFields ==
    (pc = "best" /\ group # <<>>) =>
        \A q \in LargestOfGroup : NonEmptyFields(q) <= NonEmptyFields(best.value)

\* C17, amended: among the members of the largest size the one returned has
\* the greatest number of EXIF fields, empty-valued fields counted too.
C17_MostFields ==
    (pc = "best" /\ group # <<>>) =>
        /\ best.raised = "no"
        /\ \A q \in Range(group) : q.size <= best.value.size
        /\ \A q \in LargestOfGroup : Len(q.exif_data) <= Len(best.value.exif_data)

\* two members of one size, the first with one field that has a value, the
\* second with two fields that have none: the second is returned
C17_Witness ==
    /\ pc = "best"
    /\ Len(group) = 2
    /\ group[1].size = group[2].size
    /\ NonEmptyFields(group[1]) = 1 /\ Len(group[1].exif_data) = 1
    /\ NonEmptyFields(group[2]) = 0 /\ Len(group[2].exif_data) = 2
    /\ best = Returned(group[2])

\* C18: is_meaningful_filename returns False for every stem of at least 5
\* characters that starts with a bare date written YYYYMMDD, YYYY-MM-DD or
\* YYYY_MM_DD.
C18_BareDatesRejected ==
    (pc = "ret_meaningful" /\ Len(fn_arg) >= 5 /\ ReMatch(DatePattern, fn_arg))
        => fn_ret = FALSE

\* the groups of the first two methods, in the order they were found
HashAndExifGroups(dg) ==
    LET NotByName(e) == ~StartsWith(e.key, <<"f","i","l","e","n","a","m","e","_">>)
    IN  SelectSeq(dg, NotByName)

\* the result holds a group found by filename similarity
HasFilenameGroup ==
    \E i \in DOMAIN duplicate_groups : FoundBy(i, <<"f","i","l","e","n","a","m","e","_">>)

\* two records of the batch that the first two methods left alone have
\* similar stems
SimilarPairLeft ==
    \E taken \in {GroupedBy(<<"h","a","s","h","_">>) \cup GroupedBy(<<"e","x","i","f","_">>)} :
        LET Free(p) == p \notin taken
        IN  \E left \in {SelectSeq(photos, Free)} :
                \E i, j \in DOMAIN left :
                    i < j /\ is_similar_filename(StemOf(left[i]), StemOf(left[j]))

\* C19: step 3 hands detect_duplicates a skip flag that is set iff the flag was
\* set or the batch has more than 5000 records.  With the flag set or with
\* more than 5000 records the result has no filename group; otherwise two
\* similar stems among the records the first two methods left make a
\* filename group; and in every case the hash and exif groups are those of a
\* call with the method enabled.
C19_FilenameGatedByFlagAndSize ==
    /\ [][(pc = "analyzed" /\ pc' = "detected") =>
            (skip_filename_similarity' <=>
                (skip_filename_similarity \/ Len(photos) > LargeDataset))]_vars
    /\ [](pc = "detected" =>
            /\ (skip_filename_similarity \/ Len(photos) > LargeDataset)
                  => ~HasFilenameGroup
            /\ ~skip_filename_similarity
                  => (SimilarPairLeft => HasFilenameGroup)
            /\ HashAndExifGroups(duplicate_groups)
                  = HashAndExifGroups(detect_duplicates(photos, FALSE)))

\* a batch of 5001 records, two of which have similar stems and are in no
\* hash or exif group, and no filename group in the result
C19_Witness ==
    /\ pc = "detected"
    /\ Len(photos) = LargeDataset + 1
    /\ SimilarPairLeft
    /\ ~HasFilenameGroup
    /\ Len(duplicate_groups) = 1

\* the groups of a result, each as the set of its records
GroupSets(dg) == {Range(dg[i].val) : i \in DOMAIN dg}

\* C20: with the filename method off, detect_duplicates called on the same
\* records in any other order, or in the same order again, returns the same
\* set of groups, each group taken as a set of records.
C20_GroupingIgnoresOrder ==
    [][(pc = "detected" /\ pc' = "detected" /\ skip_filename_similarity)
          => GroupSets(duplicate_groups') = GroupSets(duplicate_groups)]_vars

\* C21: the result of sanitize_filename neither begins nor ends with a dot or
\* a space, also when the stem was cut to 200 characters, and sanitizing the
\* result again returns it unchanged.
C21_TrimmedAndIdempotent ==
    /\ (pc \in {"ret_sanitize", "ret_again"} /\ fn_ret # <<>>) =>
          /\ fn_ret[1] \notin {".", " "}
          /\ fn_ret[Len(fn_ret)] \notin {".", " "}
    /\ pc = "ret_again" => fn_ret = fn_arg

====
